---- MODULE Spec2Model ----
(***************************************************************************)
(* Model of pkg/client/client.go of the cluster-monitoring-operator: the   *)
(* Client's reconcile (create-or-update, create-if-not-exists), delete and *)
(* wait operations, run one call at a time against one identity of a       *)
(* remote, versioned object store.  Every remote call is one step, so that *)
(* other writers and the cluster's controllers interleave with a call.     *)
(***************************************************************************)
EXTENDS Integers, Sequences, FiniteSets, TLC

\* ---------------------------------------------------------------- bounds
\* Number of condition evaluations a poll makes before its deadline elapses
\* (the code's deadline / interval, scaled down).
MaxTicks == 3
\* Number of client calls made in sequence in one behaviour.
MaxCalls == 2
\* Writes other clients make to the identity (bounds the version token).
MaxRV == 2
\* Child pods of the identity.
MaxPods == 1
\* Largest replica count and scheduled number in a status.
MaxReplicas == 1
\* Largest generation of a workload object.
MaxGen == 2
\* Longest condition list of a status.
MaxConds == 2

\* ---------------------------------------------------------------- values
Data == {"a", "b"}
AllocatedIP == "10.0.0.1"
ServiceTypes == {"", "ClusterIP", "NodePort"}

\* error values: a chain of errors.Wrap messages around a cause
Nil == [wrap |-> <<>>, cause |-> "nil"]
Error(c) == [wrap |-> <<>>, cause |-> c]
ErrWaitTimeout == Error("Timeout")

\* errors.Wrap(err, msg): nil stays nil
Wrap(err, msg) ==
    IF err = Nil THEN Nil ELSE [wrap |-> <<msg>> \o err.wrap, cause |-> err.cause]

\* apierrors.IsNotFound(err)
IsNotFound(err) == err.cause = "NotFound"

NoObj == [rv |-> 0, data |-> "none", clusterIP |-> "", type |-> ""]
NoObs == [none |-> TRUE]
NoSent == [verb |-> "none", obj |-> NoObj, opts |-> ""]
NoGot == [res |-> "none", obj |-> NoObj]
NoPrev == [created |-> FALSE, obj |-> NoObj]

Kinds ==
    {"SecurityContextConstraints", "Route", "Prometheus", "PrometheusRule",
     "Alertmanager", "Deployment", "DaemonSet", "ServiceMonitor", "Secret",
     "ConfigMap", "Service", "Endpoints", "RoleBinding", "Role", "ClusterRole",
     "ClusterRoleBinding", "ServiceAccount", "Ingress", "CustomResourceDefinition"}

\* the kinds that have a CreateOrUpdate<Kind> method
CreateOrUpdateKinds == Kinds \ {"Route", "CustomResourceDefinition"}
\* CreateRouteIfNotExists, CreateIfNotExistSecret, CreateIfNotExistConfigMap
CreateIfNotExistsKinds == {"Route", "Secret", "ConfigMap"}
\* DeleteDeployment, DeletePrometheus, DeleteDaemonSet, DeleteServiceMonitor
DeleteKinds == {"Deployment", "Prometheus", "DaemonSet", "ServiceMonitor"}
\* WaitForPrometheus, WaitForAlertmanager, WaitForDeploymentRollout,
\* WaitForRouteReady, WaitForDaemonSetRollout, WaitForCRDReady
WaitForKinds ==
    {"Prometheus", "Alertmanager", "Deployment", "Route", "DaemonSet",
     "CustomResourceDefinition"}

\* the methods of Client that act on an identity of kind k
FnsOf(k) ==
    (IF k \in CreateOrUpdateKinds THEN {"CreateOrUpdate"} ELSE {})
    \cup (IF k \in CreateIfNotExistsKinds THEN {"CreateIfNotExists"} ELSE {})
    \cup (IF k \in DeleteKinds THEN {"Delete"} ELSE {})
    \cup (IF k \in WaitForKinds THEN {"WaitFor"} ELSE {})
    \cup (IF k = "CustomResourceDefinition"
          THEN {"WaitForPrometheusOperatorCRDsReady"} ELSE {})

VARIABLES
    kind,       \* the kind of the identity the behaviour is about
    store,      \* the remote store's object of that identity
    pods,       \* number of child pods of the identity still in the store
    fn,         \* the Client method being executed ("none" when idle)
    pc,         \* position in that method
    desired,    \* the caller's object (the method's argument)
    got,        \* what the method's initial Get returned
    sent,       \* the last write request the method sent
    lastErr,    \* the error the last remote write returned
    via,        \* the path the method took: "create", "update" or ""
    nGet, nCreate, nUpdate,   \* remote calls issued by the current call
    tick,       \* condition evaluations made by the current poll
    stage,      \* step of WaitForPrometheusOperatorCRDsReady's condition
    verdicts,   \* what the condition returned on each tick of the poll
    lastObs,    \* the object fetched by the tick that ended the poll
    host,       \* WaitForRouteReady's host result
    result,     \* the error the method returned
    ncalls,     \* calls started so far
    prev,       \* the object the caller's last CreateOrUpdate call created, as
                \* long as no other client has written and no other call was made
    parked      \* the call of a second calling context that is not running now

vars ==
    <<kind, store, pods, fn, pc, desired, got, sent, lastErr, via, nGet,
      nCreate, nUpdate, tick, stage, verdicts, lastObs, host, result, ncalls,
      prev, parked>>

callVars ==
    <<fn, pc, desired, got, sent, lastErr, via, nGet, nCreate, nUpdate, tick,
      stage, verdicts, lastObs, host, result, ncalls>>

\* ------------------------------------------------------- the remote store
AbsentStore == [phase |-> "absent", rv |-> 0, data |-> "none", clusterIP |-> "", type |-> ""]

\* server-side defaulting and allocation on a write of object o of kind k
Defaulted(k, o, ip) ==
    IF k = "Service"
    THEN [o EXCEPT !.type = IF o.type = "" THEN "ClusterIP" ELSE o.type,
                   !.clusterIP = ip]
    ELSE o

StoredObj(s) == [rv |-> s.rv, data |-> s.data, clusterIP |-> s.clusterIP, type |-> s.type]

\* the objects of kind k the store can hold before the first call
InitialStores(k) ==
    {AbsentStore}
    \cup {[phase |-> "present", rv |-> 1, data |-> d,
           clusterIP |-> IF k = "Service" THEN AllocatedIP ELSE "",
           type |-> t] :
            d \in Data,
            t \in IF k = "Service" THEN {"ClusterIP", "NodePort"} ELSE {""}}

\* Get(name): the object, a not-found error, or a transport error
GetResponses(s) ==
    {[res |-> "err", obj |-> NoObj]}
    \cup (IF s.phase = "absent"
          THEN {[res |-> "notfound", obj |-> NoObj]}
          ELSE {[res |-> "found", obj |-> StoredObj(s)]})

\* the error Create(o) is answered with when the store accepts the request
CreateError(s) == IF s.phase = "absent" THEN Nil ELSE Error("AlreadyExists")

\* the store after Create(o)
Created(k, s, o) ==
    LET d == Defaulted(k, o, IF k = "Service" THEN AllocatedIP ELSE "")
    IN  [phase |-> "present", rv |-> s.rv + 1, data |-> d.data,
         clusterIP |-> d.clusterIP, type |-> d.type]

\* the kinds served as custom resources
CustomResourceKinds == {"Prometheus", "PrometheusRule", "Alertmanager", "ServiceMonitor"}

\* the error Update(o) is answered with: the object is gone, the version
\* token is set and stale, the version token is unset on a custom resource,
\* or an immutable allocated field is changed
UpdateError(k, s, o) ==
    IF s.phase = "absent" THEN Error("NotFound")
    ELSE IF o.rv # 0 /\ o.rv # s.rv THEN Error("Conflict")
    ELSE IF o.rv = 0 /\ k \in CustomResourceKinds THEN Error("Invalid")
    ELSE IF k = "Service" /\ o.clusterIP # s.clusterIP THEN Error("Invalid")
    ELSE Nil

\* the store after an accepted Update(o)
Updated(k, s, o) ==
    LET d == Defaulted(k, o, s.clusterIP)
    IN  [s EXCEPT !.rv = s.rv + 1, !.data = d.data, !.type = d.type]

\* ------------------------------------------------- the caller's arguments
\* the desired objects a caller passes: the version token unset (a manifest)
\* or set (an object fetched earlier); a Service declares its type or not
DesiredObjects(k) ==
    {[rv |-> r, data |-> d, clusterIP |-> "", type |-> t] :
        r \in {0, 1}, d \in Data,
        t \in IF k = "Service" THEN ServiceTypes ELSE {""}}

\* the argument of a method that only uses the object's name
NameOnly == [rv |-> 0, data |-> "a", clusterIP |-> "", type |-> ""]

ArgumentsOf(f, k) ==
    IF f \in {"CreateOrUpdate", "CreateIfNotExists"} THEN DesiredObjects(k) ELSE {NameOnly}

\* -------------------------------------------------------------- reconcile
\* what the found branch copies from the object Get returned onto the
\* caller's object before Update
CarryOver(k, d, observed) ==
    IF k = "Service"
    THEN [d EXCEPT !.rv = observed.rv,
                   !.clusterIP = IF d.type = "ClusterIP" THEN observed.clusterIP
                                 ELSE d.clusterIP]
    ELSE IF k = "Endpoints"
    THEN [d EXCEPT !.rv = observed.rv]
    ELSE d

\* UpdatesWhenFound with the create-if-not-exists methods updating too
UpdatesWhenFoundEveryMethod(f, k) == k # "ServiceAccount"

\* UpdatesWhenFound without the ServiceAccount exception
UpdatesWhenFoundEveryKind(f, k) == f = "CreateOrUpdate"

\* whether the method goes on to Update once Get found the object
UpdatesWhenFound(f, k) == f = "CreateOrUpdate" /\ k # "ServiceAccount"

\* what the method returns when Get did not report not-found and the method
\* does not go on to Update: err is Get's error, nil when the object was found
GetErrorResult(f, k, err) ==
    IF f = "CreateIfNotExists" /\ k = "Route" THEN Nil
    ELSE Wrap(err, "retrieving object failed")

\* a failed Create reported with the message of the Update
CreateLabelOfUpdate(k) == "updating object failed"

\* the message a failed Create is wrapped with
CreateLabel(k) == "creating object failed"

\* the message a failed Update is wrapped with
UpdateLabel(k) ==
    IF k = "Ingress" THEN "creating object failed" ELSE "updating object failed"

\* HasRollout with no kind waiting after its write
HasRolloutNoKind(f, k) == FALSE

\* HasRollout with every kind waiting after its write
HasRolloutEveryKind(f, k) == f = "CreateOrUpdate"

\* CreateDeployment, UpdateDeployment, CreateDaemonSet and UpdateDaemonSet
\* wait for the rollout after a successful write
HasRollout(f, k) == f = "CreateOrUpdate" /\ k \in {"Deployment", "DaemonSet"}

\* a caller invokes method f of the Client with argument d
Call(f, d) ==
    /\ pc = "idle"
    /\ ncalls < MaxCalls
    /\ fn' = f
    /\ desired' = d
    /\ pc' = IF f \in {"CreateOrUpdate", "CreateIfNotExists"} THEN "get"
             ELSE IF f = "Delete" THEN "delete" ELSE "poll"
    /\ stage' = IF f = "WaitForPrometheusOperatorCRDsReady" THEN 1 ELSE 0
    /\ ncalls' = ncalls + 1
    /\ UNCHANGED <<kind, store, pods, got, sent, lastErr, via, nGet, nCreate,
                   nUpdate, tick, verdicts, lastObs, host, result, prev>>
    /\ UNCHANGED parked

\* AfterGet with the not-found branch falling through to the update
AfterGetFallsThrough(f, k, res) ==
    IF res = "err" THEN "done"
    ELSE IF UpdatesWhenFound(f, k) THEN "update"
    ELSE IF res = "notfound" THEN "create"
    ELSE "done"

\* the branch the method takes on the answer of its initial Get: not found,
\* failed, or found
AfterGet(f, k, res) ==
    IF res = "notfound" THEN "create"
    ELSE IF res = "err" THEN "done"
    ELSE IF UpdatesWhenFound(f, k) THEN "update"
    ELSE "done"

\* the method's initial Get and the branch taken on its answer
ReconcileGet ==
    /\ pc = "get"
    /\ \E r \in GetResponses(store) :
        /\ got' = r
        /\ pc' = AfterGet(fn, kind, r.res)
        /\ desired' = IF pc' = "update" THEN CarryOver(kind, desired, r.obj)
                      ELSE desired
        /\ result' = IF pc' = "done"
                     THEN GetErrorResult(fn, kind,
                                         IF r.res = "err" THEN Error("Transport") ELSE Nil)
                     ELSE result
    /\ nGet' = nGet + 1
    /\ UNCHANGED <<kind, store, pods, fn, sent, lastErr, via, nCreate, nUpdate,
                   tick, stage, verdicts, lastObs, host, ncalls, prev>>
    /\ UNCHANGED parked

\* the not-found branch: Create(desired), then return its error wrapped, or
\* wait for the rollout
ReconcileCreate ==
    /\ pc = "create"
    /\ \E transportFails \in BOOLEAN :
        LET err == IF transportFails THEN Error("Transport") ELSE CreateError(store)
        IN  /\ sent' = [verb |-> "create", obj |-> desired, opts |-> ""]
            /\ lastErr' = err
            /\ store' = IF err = Nil THEN Created(kind, store, desired) ELSE store
            /\ IF err = Nil /\ HasRollout(fn, kind)
               THEN pc' = "poll" /\ UNCHANGED result
               ELSE pc' = "done" /\ result' = Wrap(err, CreateLabel(kind))
    /\ nCreate' = nCreate + 1
    /\ via' = "create"
    /\ prev' = IF fn = "CreateOrUpdate" /\ store' # store
               THEN [created |-> TRUE, obj |-> desired]
               ELSE NoPrev
    /\ UNCHANGED <<kind, pods, fn, desired, got, nGet, nUpdate, tick, stage,
                   verdicts, lastObs, host, ncalls>>
    /\ UNCHANGED parked

\* the found branch: Update(desired), then return its error wrapped, or wait
\* for the rollout
ReconcileUpdate ==
    /\ pc = "update"
    /\ \E transportFails \in BOOLEAN :
        LET err == IF transportFails THEN Error("Transport")
                   ELSE UpdateError(kind, store, desired)
        IN  /\ sent' = [verb |-> "update", obj |-> desired, opts |-> ""]
            /\ lastErr' = err
            /\ store' = IF err = Nil THEN Updated(kind, store, desired) ELSE store
            /\ IF err = Nil /\ HasRollout(fn, kind)
               THEN pc' = "poll" /\ UNCHANGED result
               ELSE pc' = "done" /\ result' = Wrap(err, UpdateLabel(kind))
    /\ nUpdate' = nUpdate + 1
    /\ via' = "update"
    /\ UNCHANGED <<kind, pods, fn, desired, got, nGet, nCreate, tick, stage,
                   verdicts, lastObs, host, ncalls, prev>>
    /\ UNCHANGED parked

\* the method returns to its caller, who may call again
Return ==
    /\ pc = "done"
    /\ pc' = "idle"
    /\ fn' = "none"
    /\ desired' = NoObj
    /\ got' = NoGot
    /\ sent' = NoSent
    /\ lastErr' = Nil
    /\ via' = ""
    /\ nGet' = 0 /\ nCreate' = 0 /\ nUpdate' = 0
    /\ tick' = 0 /\ stage' = 0
    /\ verdicts' = <<>>
    /\ lastObs' = NoObs
    /\ host' = ""
    /\ result' = Nil
    /\ prev' = IF fn = "CreateOrUpdate" /\ via = "create" /\ result = Nil
               THEN prev
               ELSE NoPrev
    /\ UNCHANGED <<kind, store, pods, ncalls>>
    /\ UNCHANGED parked

\* ------------------------------------------------------------ environment
\* another client rewrites the object
OtherWrite ==
    /\ store.phase = "present"
    /\ store.rv < MaxRV
    /\ \E d \in Data :
        /\ d # store.data
        /\ store' = [store EXCEPT !.rv = store.rv + 1, !.data = d]
    /\ UNCHANGED <<kind, pods>>
    /\ UNCHANGED callVars
    /\ prev' = NoPrev
    /\ UNCHANGED parked

\* another client creates the object
OtherCreate ==
    /\ store.phase = "absent"
    /\ store.rv < MaxRV
    /\ \E o \in DesiredObjects(kind) :
        /\ o.rv = 0
        /\ store' = Created(kind, store, o)
    /\ UNCHANGED <<kind, pods>>
    /\ UNCHANGED callVars
    /\ prev' = NoPrev
    /\ UNCHANGED parked

\* the cluster's garbage collector removes a child pod of a deleted object
PodGC ==
    /\ pods > 0
    /\ store.phase \in {"absent", "terminating"}
    /\ pods' = pods - 1
    /\ UNCHANGED <<kind, store>>
    /\ UNCHANGED callVars
    /\ UNCHANGED prev
    /\ UNCHANGED parked

\* an object deleted in the foreground disappears once its children are gone
Finalize ==
    /\ store.phase = "terminating"
    /\ pods = 0
    /\ store' = [AbsentStore EXCEPT !.rv = store.rv]
    /\ UNCHANGED <<kind, pods>>
    /\ UNCHANGED callVars
    /\ UNCHANGED prev
    /\ UNCHANGED parked

\* the error Delete(name, opts) is answered with
DeleteError(s) == IF s.phase = "absent" THEN Error("NotFound") ELSE Nil

\* the store after an accepted Delete(name, opts): with foreground
\* propagation the object stays, marked as being deleted, until its children
\* are gone; otherwise it is removed at once and its children are collected
\* afterwards
Deleted(s, opts) ==
    IF opts = "PropagationPolicy=Foreground"
    THEN [s EXCEPT !.phase = "terminating"]
    ELSE IF s.phase = "terminating" THEN s
    ELSE [AbsentStore EXCEPT !.rv = s.rv]

\* ----------------------------------------------------------------- delete
\* the DeleteOptions each Delete method passes
DeleteOptions(k) ==
    IF k = "Deployment" THEN "PropagationPolicy=Foreground"
    ELSE IF k = "DaemonSet" THEN "OrphanDependents=false"
    ELSE "nil"

\* every Delete method returning right after the remote delete
DeleteReturnsBeforeWait(k, err) == TRUE

\* whether the Delete method returns right after the remote delete
DeleteReturns(k, err) == k # "Prometheus" \/ (err # Nil /\ ~IsNotFound(err))

\* DeleteResult without the not-found check of DeleteDeployment and
\* DeleteDaemonSet
DeleteResultSurfacesNotFound(k, err) ==
    IF k \in {"Deployment", "DaemonSet"}
    THEN err
    ELSE IF err # Nil /\ ~IsNotFound(err)
    THEN Wrap(err, "deleting object failed")
    ELSE Nil

\* what it then returns
DeleteResult(k, err) ==
    IF k \in {"Deployment", "DaemonSet"}
    THEN (IF IsNotFound(err) THEN Nil ELSE err)
    ELSE IF err # Nil /\ ~IsNotFound(err)
    THEN Wrap(err, "deleting object failed")
    ELSE Nil

\* the Delete method's remote delete
ClientDelete ==
    /\ pc = "delete"
    /\ \E transportFails \in BOOLEAN :
        LET err == IF transportFails THEN Error("Transport") ELSE DeleteError(store)
            opts == DeleteOptions(kind)
        IN  /\ sent' = [verb |-> "delete", obj |-> NoObj, opts |-> opts]
            /\ lastErr' = err
            /\ store' = IF err = Nil THEN Deleted(store, opts) ELSE store
            /\ IF DeleteReturns(kind, err)
               THEN pc' = "done" /\ result' = DeleteResult(kind, err)
               ELSE pc' = "poll" /\ UNCHANGED result
    /\ UNCHANGED <<kind, pods, fn, desired, got, via, nGet, nCreate, nUpdate,
                   tick, stage, verdicts, lastObs, host, ncalls, prev>>
    /\ UNCHANGED parked

\* ------------------------------------------------------------------ waits
Seqs(S, n) == UNION {[1..m -> S] : m \in 0..n}

Condition(t, st) == [type |-> t, status |-> st]

\* what a Get of each kind can show on a tick; the status is written by the
\* cluster's controllers
DeploymentStatuses ==
    [generation : 1..MaxGen, observedGeneration : 1..MaxGen,
     updatedReplicas : 0..MaxReplicas, replicas : 0..MaxReplicas,
     unavailableReplicas : 0..MaxReplicas]

DaemonSetStatuses ==
    [generation : 1..MaxGen, observedGeneration : 1..MaxGen,
     updatedNumberScheduled : 0..MaxReplicas,
     desiredNumberScheduled : 0..MaxReplicas,
     numberUnavailable : 0..MaxReplicas]

CRDConditions ==
    {Condition(t, st) : t \in {"Established", "NamesAccepted"}, st \in {"True", "False"}}

CRDStatuses == [conditions : Seqs(CRDConditions, MaxConds)]

RouteConditions ==
    {Condition("Admitted", "True"), Condition("Admitted", "False"),
     Condition("Other", "True")}

RouteStatuses ==
    [ingress : Seqs([conditions : Seqs(RouteConditions, MaxConds)], 1),
     host : {"example.test", "other.test"}]

\* a Prometheus or Alertmanager object and what PrometheusStatus or
\* AlertmanagerStatus computes for it from the pods
MonitoringStatuses ==
    [replicas : 0..MaxReplicas, statusErr : BOOLEAN,
     updatedReplicas : 0..MaxReplicas, availableReplicas : 0..MaxReplicas]

Observations(f, k, p) ==
    IF f = "Delete" THEN {[items |-> p]}
    ELSE IF k = "Deployment" THEN DeploymentStatuses
    ELSE IF k = "DaemonSet" THEN DaemonSetStatuses
    ELSE IF k = "Route" THEN RouteStatuses
    ELSE IF k = "CustomResourceDefinition" THEN CRDStatuses
    ELSE MonitoringStatuses

\* what the remote call of a tick answers: an error or an object
TickResponses(f, k, p) ==
    {[err |-> Error("Transport"), obs |-> NoObs]}
    \cup {[err |-> Nil, obs |-> o] : o \in Observations(f, k, p)}

Verdict(ready, err, h) == [ready |-> ready, err |-> err, host |-> h]

\* the Deployment condition without the check of the unavailable replicas
DeploymentRolloutConditionIgnoresUnavailable(r) ==
    IF r.err # Nil THEN Verdict(FALSE, r.err, "")
    ELSE Verdict(/\ r.obs.generation <= r.obs.observedGeneration
                 /\ r.obs.updatedReplicas = r.obs.replicas, Nil, "")

\* the condition function of WaitForDeploymentRollout
DeploymentRolloutCondition(r) ==
    IF r.err # Nil THEN Verdict(FALSE, r.err, "")
    ELSE Verdict(/\ r.obs.generation <= r.obs.observedGeneration
                 /\ r.obs.updatedReplicas = r.obs.replicas
                 /\ r.obs.unavailableReplicas = 0, Nil, "")

\* the DaemonSet condition requiring the observed generation to be equal
DaemonSetRolloutConditionSameGeneration(r) ==
    IF r.err # Nil THEN Verdict(FALSE, r.err, "")
    ELSE Verdict(/\ r.obs.generation = r.obs.observedGeneration
                 /\ r.obs.updatedNumberScheduled = r.obs.desiredNumberScheduled
                 /\ r.obs.numberUnavailable = 0, Nil, "")

\* the condition function of WaitForDaemonSetRollout
DaemonSetRolloutCondition(r) ==
    IF r.err # Nil THEN Verdict(FALSE, r.err, "")
    ELSE Verdict(/\ r.obs.generation <= r.obs.observedGeneration
                 /\ r.obs.updatedNumberScheduled = r.obs.desiredNumberScheduled
                 /\ r.obs.numberUnavailable = 0, Nil, "")

\* the loop of WaitForRouteReady's condition over the first ingress entry
RECURSIVE Admitted(_, _)
Admitted(conds, i) ==
    IF i > Len(conds) THEN FALSE
    ELSE IF conds[i].type = "Admitted" /\ conds[i].status = "True" THEN TRUE
    ELSE Admitted(conds, i + 1)

\* the route condition looking at the first condition of the entry only
RouteReadyConditionFirstOnly(r) ==
    IF r.err # Nil THEN Verdict(FALSE, r.err, "")
    ELSE IF Len(r.obs.ingress) = 0 THEN Verdict(FALSE, Nil, "")
    ELSE IF /\ Len(r.obs.ingress[1].conditions) > 0
            /\ r.obs.ingress[1].conditions[1] = Condition("Admitted", "True")
    THEN Verdict(TRUE, Nil, r.obs.host)
    ELSE Verdict(FALSE, Nil, "")

\* the condition function of WaitForRouteReady
RouteReadyCondition(r) ==
    IF r.err # Nil THEN Verdict(FALSE, r.err, "")
    ELSE IF Len(r.obs.ingress) = 0 THEN Verdict(FALSE, Nil, "")
    ELSE IF Admitted(r.obs.ingress[1].conditions, 1)
    THEN Verdict(TRUE, Nil, r.obs.host)
    ELSE Verdict(FALSE, Nil, "")

\* the loop of CRDReady over the conditions, from the i-th on
RECURSIVE CRDReadyFrom(_, _)
CRDReadyFrom(conds, i) ==
    IF i > Len(conds) THEN Verdict(FALSE, Nil, "")
    ELSE IF conds[i].type = "Established" /\ conds[i].status = "True"
    THEN Verdict(TRUE, Nil, "")
    ELSE IF conds[i].type = "NamesAccepted" /\ conds[i].status = "False"
    THEN Verdict(FALSE, Error("NamingConflict"), "")
    ELSE CRDReadyFrom(conds, i + 1)

\* CRDReady with the loop starting at the second condition
CRDReadySkipsFirst(r) ==
    IF r.err # Nil THEN Verdict(FALSE, r.err, "")
    ELSE CRDReadyFrom(r.obs.conditions, 2)

\* CRDReady
CRDReady(r) ==
    IF r.err # Nil THEN Verdict(FALSE, r.err, "")
    ELSE CRDReadyFrom(r.obs.conditions, 1)

\* the monitoring condition requiring exactly the desired count available
MonitoringConditionExactlyAvailable(r) ==
    IF r.err # Nil THEN Verdict(FALSE, Wrap(r.err, "retrieving object failed"), "")
    ELSE IF r.obs.statusErr
    THEN Verdict(FALSE, Wrap(Error("Transport"), "retrieving status failed"), "")
    ELSE Verdict(/\ r.obs.updatedReplicas = r.obs.replicas
                 /\ r.obs.availableReplicas = r.obs.replicas, Nil, "")

\* the condition function of WaitForPrometheus and of WaitForAlertmanager
MonitoringCondition(r) ==
    IF r.err # Nil THEN Verdict(FALSE, Wrap(r.err, "retrieving object failed"), "")
    ELSE IF r.obs.statusErr
    THEN Verdict(FALSE, Wrap(Error("Transport"), "retrieving status failed"), "")
    ELSE Verdict(/\ r.obs.updatedReplicas = r.obs.replicas
                 /\ r.obs.availableReplicas >= r.obs.replicas, Nil, "")

\* the condition function of DeletePrometheus's poll
PodsGoneCondition(r) ==
    IF r.err # Nil
    THEN Verdict(FALSE, Wrap(r.err, "retrieving pods during polling failed"), "")
    ELSE Verdict(r.obs.items = 0, Nil, "")

\* the condition function the poll of method f on kind k evaluates
ConditionOf(f, k, r) ==
    IF f = "Delete" THEN PodsGoneCondition(r)
    ELSE IF k = "Deployment" THEN DeploymentRolloutCondition(r)
    ELSE IF k = "DaemonSet" THEN DaemonSetRolloutCondition(r)
    ELSE IF k = "Route" THEN RouteReadyCondition(r)
    ELSE IF k = "CustomResourceDefinition" THEN CRDReady(r)
    ELSE MonitoringCondition(r)

\* PollOutcome of a poll that has no deadline
PollOutcomeWithoutDeadline(c, n) ==
    IF c.err # Nil THEN "err"
    ELSE IF c.ready THEN "ok"
    ELSE "pending"

\* PollOutcome looking at ready only once the deadline has elapsed
PollOutcomeWaitsOutDeadline(c, n) ==
    IF c.err # Nil THEN "err"
    ELSE IF n < MaxTicks THEN "pending"
    ELSE IF c.ready THEN "ok"
    ELSE "timeout"

\* wait.Poll after the n-th evaluation of its condition, which returned c:
\* an error ends the poll, then ready ends it, then the deadline
PollOutcome(c, n) ==
    IF c.err # Nil THEN "err"
    ELSE IF c.ready THEN "ok"
    ELSE IF n >= MaxTicks THEN "timeout"
    ELSE "pending"

\* the error wait.Poll returns
PollError(c, out) ==
    IF out = "err" THEN c.err
    ELSE IF out = "timeout" THEN ErrWaitTimeout
    ELSE Nil

\* what WaitForPrometheusOperatorCRDsReady returns once its poll returned
CRDsReadyResult(pollErr) == Nil

\* what the method returns once its poll returned pollErr
Finish(f, k, path, pollErr) ==
    IF f = "WaitFor" THEN pollErr
    ELSE IF f = "CreateOrUpdate"
    THEN Wrap(pollErr, IF path = "create" THEN CreateLabel(k) ELSE UpdateLabel(k))
    ELSE IF f = "Delete"
    THEN Wrap(pollErr, "waiting for Prometheus Pods to be gone failed")
    ELSE CRDsReadyResult(pollErr)

VerdictName(c) ==
    IF c.err # Nil THEN "error" ELSE IF c.ready THEN "ready" ELSE "pending"

\* one tick of a poll: the condition is evaluated on a fresh remote answer
PollTick ==
    /\ pc = "poll"
    /\ tick < MaxTicks      \* the deadline has not elapsed
    /\ \E r \in TickResponses(fn, kind, pods) :
        LET c == ConditionOf(fn, kind, r)
            out == PollOutcome(c, tick + 1)
            pollErr == PollError(c, out)
        IN  /\ lastObs' = IF out = "pending" \/ (out = "ok" /\ stage # 0)
                          THEN NoObs ELSE r.obs
            /\ host' = IF c.ready THEN c.host ELSE host
            /\ IF out = "pending"
               THEN /\ tick' = tick + 1
                    /\ verdicts' = Append(verdicts, VerdictName(c))
                    /\ UNCHANGED <<pc, stage, result>>
               ELSE IF out = "ok" /\ stage # 0
               THEN \* an inner WaitForCRDReady returned nil: the condition of
                    \* WaitForPrometheusOperatorCRDsReady goes on
                    /\ tick' = 0
                    /\ verdicts' = <<>>
                    /\ stage' = stage + 1
                    /\ pc' = IF stage = 3 THEN "list" ELSE "poll"
                    /\ UNCHANGED result
               ELSE /\ tick' = tick + 1
                    /\ verdicts' = Append(verdicts, VerdictName(c))
                    /\ pc' = "done"
                    /\ result' = Finish(fn, kind, via, pollErr)
                    /\ UNCHANGED stage
    /\ nGet' = IF fn = "Delete" THEN nGet ELSE nGet + 1
    /\ UNCHANGED <<kind, store, pods, fn, desired, got, sent, lastErr, via,
                   nCreate, nUpdate, ncalls, prev>>
    /\ UNCHANGED parked

\* one List call of WaitForPrometheusOperatorCRDsReady's condition
ListStep ==
    /\ pc = "list"
    /\ \E listFails \in BOOLEAN :
        IF listFails
        THEN /\ pc' = "done"
             /\ result' = CRDsReadyResult(Error("Transport"))
             /\ UNCHANGED stage
        ELSE IF stage < 6
        THEN /\ stage' = stage + 1
             /\ UNCHANGED <<pc, result>>
        ELSE /\ pc' = "done"
             /\ result' = CRDsReadyResult(Nil)
             /\ UNCHANGED stage
    /\ UNCHANGED <<kind, store, pods, fn, desired, got, sent, lastErr, via, nGet,
                   nCreate, nUpdate, tick, verdicts, lastObs, host, ncalls, prev>>
    /\ UNCHANGED parked

\* ------------------------------------------------- two calling contexts
\* the call of the calling context that is running
Running ==
    [fn |-> fn, pc |-> pc, desired |-> desired, got |-> got, sent |-> sent,
     lastErr |-> lastErr, via |-> via, nGet |-> nGet, nCreate |-> nCreate,
     nUpdate |-> nUpdate, tick |-> tick, stage |-> stage, verdicts |-> verdicts,
     lastObs |-> lastObs, host |-> host, result |-> result]

\* a calling context that has made no call
Idle ==
    [fn |-> "none", pc |-> "idle", desired |-> NoObj, got |-> NoGot, sent |-> NoSent,
     lastErr |-> Nil, via |-> "", nGet |-> 0, nCreate |-> 0, nUpdate |-> 0,
     tick |-> 0, stage |-> 0, verdicts |-> <<>>, lastObs |-> NoObs, host |-> "",
     result |-> Nil]

\* the scheduler lets the other calling context run: the Client holds no
\* state of its own, the two contexts share the remote store only
Yield ==
    /\ parked # Running
    /\ parked' = Running
    /\ fn' = parked.fn
    /\ pc' = parked.pc
    /\ desired' = parked.desired
    /\ got' = parked.got
    /\ sent' = parked.sent
    /\ lastErr' = parked.lastErr
    /\ via' = parked.via
    /\ nGet' = parked.nGet /\ nCreate' = parked.nCreate /\ nUpdate' = parked.nUpdate
    /\ tick' = parked.tick /\ stage' = parked.stage
    /\ verdicts' = parked.verdicts
    /\ lastObs' = parked.lastObs
    /\ host' = parked.host
    /\ result' = parked.result
    /\ UNCHANGED <<kind, store, pods, ncalls, prev>>

\* ---------------------------------------------------------- specification
Init ==
    /\ kind \in Kinds
    /\ store \in InitialStores(kind)
    /\ pods \in IF kind \in {"Deployment", "DaemonSet", "Prometheus", "Alertmanager"}
               THEN 0..MaxPods ELSE {0}
    /\ fn = "none"
    /\ pc = "idle"
    /\ desired = NoObj
    /\ got = NoGot
    /\ sent = NoSent
    /\ lastErr = Nil
    /\ via = ""
    /\ nGet = 0 /\ nCreate = 0 /\ nUpdate = 0
    /\ tick = 0 /\ stage = 0
    /\ verdicts = <<>>
    /\ lastObs = NoObs
    /\ host = ""
    /\ result = Nil
    /\ ncalls = 0
    /\ prev = NoPrev
    /\ parked = Idle

Next ==
    \/ \E f \in FnsOf(kind) : \E d \in ArgumentsOf(f, kind) : Call(f, d)
    \/ ReconcileGet
    \/ ReconcileCreate
    \/ ReconcileUpdate
    \/ ClientDelete
    \/ PollTick
    \/ ListStep
    \/ Return
    \/ OtherWrite
    \/ OtherCreate
    \/ PodGC
    \/ Finalize

Spec == Init /\ [][Next]_vars

\* the behaviours in which the caller makes a single call, from any store
NextOneCall ==
    \/ \E f \in FnsOf(kind) : \E d \in ArgumentsOf(f, kind) : ncalls = 0 /\ Call(f, d)
    \/ ReconcileGet
    \/ ReconcileCreate
    \/ ReconcileUpdate
    \/ ClientDelete
    \/ PollTick
    \/ ListStep
    \/ Return
    \/ OtherWrite
    \/ OtherCreate
    \/ PodGC
    \/ Finalize

\* two calling contexts reconcile the same identity, absent at first, with no
\* other client; each makes one CreateOrUpdate call and keeps its result. The
\* rollout wait of a Deployment or DaemonSet call only reads the store: such a
\* call is followed up to the start of its wait
InitAbsent == Init /\ kind \in CreateOrUpdateKinds /\ store = AbsentStore

NextConcurrent ==
    \/ \E d \in ArgumentsOf("CreateOrUpdate", kind) : Call("CreateOrUpdate", d)
    \/ ReconcileGet
    \/ ReconcileCreate
    \/ ReconcileUpdate
    \/ Yield

ConcurrentSpec == InitAbsent /\ [][NextConcurrent]_vars

\* wait.Poll's ticker fires as long as the poll runs, and a List call that was
\* issued returns: a method that is polling or listing takes its next step
FairSpec == Init /\ [][NextOneCall]_vars /\ WF_vars(PollTick) /\ WF_vars(ListStep)

\* ------------------------------------------------------------- properties
Standard == fn = "CreateOrUpdate" /\ kind # "ServiceAccount"
LastVerdict == IF verdicts = <<>> THEN "none" ELSE verdicts[Len(verdicts)]

\* C1: for every CreateOrUpdate method, when the initial Get reports the
\* identity as not found, the call issues exactly one Create and no Update:
\* no Update at any point of the call, and exactly one Create once the
\* create step is passed.
C1_AbsentCreatesOnce ==
    (fn = "CreateOrUpdate" /\ got.res = "notfound") =>
        /\ nUpdate = 0
        /\ nCreate = IF pc = "create" THEN 0 ELSE 1
        /\ pc \in {"create", "poll", "done"}

C1_Witness ==
    /\ fn = "CreateOrUpdate" /\ kind = "Deployment" /\ pc = "done"
    /\ got.res = "notfound" /\ nCreate = 1 /\ nUpdate = 0 /\ tick > 0

\* C2 as stated: for every kind with standard policy, a reconcile call that
\* found the identity has issued, when it returns, exactly one Get, no
\* Create and exactly one Update, and an Update rejected as a conflict is
\* returned wrapped.
C2_Original ==
    (Standard /\ got.res = "found" /\ pc = "done") =>
        /\ nGet = 1 /\ nCreate = 0 /\ nUpdate = 1
        /\ (lastErr.cause = "Conflict" =>
                result.cause = "Conflict" /\ Len(result.wrap) = 1)

\* C2 as amended: for every kind with standard policy, a reconcile call that
\* found the identity issues exactly one Get before its write, no Create and
\* exactly one Update; the only further Gets are those of the rollout wait
\* that CreateOrUpdateDeployment and CreateOrUpdateDaemonSet run after a
\* successful Update, one per tick; an Update rejected as a conflict is not
\* retried and its error is returned wrapped.
C2_PresentUpdatesOnce ==
    (Standard /\ got.res = "found") =>
        /\ pc \in {"update", "poll", "done"}
        /\ nCreate = 0
        /\ nUpdate = IF pc = "update" THEN 0 ELSE 1
        /\ nGet = 1 + tick
        /\ (tick > 0 => kind \in {"Deployment", "DaemonSet"} /\ lastErr = Nil)
        /\ (lastErr.cause = "Conflict" =>
                /\ pc = "done" /\ tick = 0
                /\ result.cause = "Conflict" /\ Len(result.wrap) = 1)

C2_Witness ==
    /\ Standard /\ kind = "Endpoints" /\ pc = "done" /\ got.res = "found"
    /\ nGet = 1 /\ nUpdate = 1 /\ lastErr.cause = "Conflict"
    /\ result.cause = "Conflict"

\* C3: for every kind with standard policy, any Update the reconciler sends
\* carries the version token of the object returned by the Get of the same
\* call.
C3_UpdateCarriesVersion ==
    (Standard /\ sent.verb = "update") => sent.obj.rv = got.obj.rv

\* C4: whenever the reconciler updates a present Service, the object passed
\* to Update carries the cluster IP of the object returned by Get, whatever
\* the declared type of the desired Service.
C4_UpdateCarriesClusterIP ==
    (Standard /\ kind = "Service" /\ sent.verb = "update") =>
        sent.obj.clusterIP = got.obj.clusterIP

\* C5: for ServiceAccount, reconciling a present identity issues no Update
\* (and no other write request) and returns success, whatever the desired
\* object is.
C5_ServiceAccountUntouched ==
    (fn = "CreateOrUpdate" /\ kind = "ServiceAccount" /\ got.res = "found") =>
        /\ pc = "done"
        /\ nUpdate = 0 /\ nCreate = 0 /\ nGet = 1
        /\ sent = NoSent
        /\ result = Nil

C5_Witness ==
    /\ fn = "CreateOrUpdate" /\ kind = "ServiceAccount" /\ pc = "done"
    /\ got.res = "found" /\ desired.data # got.obj.data
    /\ StoredObj(store) = got.obj /\ result = Nil

\* C6: for every reconcile method, the create-if-not-exists ones included,
\* when the initial Get fails for a reason other than not-found the call
\* returns a non-nil wrapped retrieving error and issues neither Create nor
\* Update.
C6_GetErrorSurfaced ==
    (fn \in {"CreateOrUpdate", "CreateIfNotExists"} /\ pc = "done" /\ got.res = "err") =>
        /\ result # Nil
        /\ result.wrap = <<"retrieving object failed">>
        /\ nCreate = 0 /\ nUpdate = 0

\* C7 as stated: every Delete method whose remote delete reports the
\* identity as not found returns success, whatever pods the store still
\* holds (no remote call of the method failing in transport).
C7_Original ==
    (/\ fn = "Delete" /\ pc = "done" /\ lastErr.cause = "NotFound"
     /\ result.cause # "Transport") =>
        result = Nil

\* C7 as amended: DeleteDeployment, DeleteDaemonSet and DeleteServiceMonitor
\* return success when the remote delete reports the identity as not found;
\* DeletePrometheus never returns that not-found error, but goes on to wait
\* for the pods and returns success exactly when that wait saw no pod, and
\* the wait's error (a time-out or a failed listing) otherwise.
C7_DeleteAbsent ==
    (fn = "Delete" /\ pc = "done" /\ lastErr.cause = "NotFound") =>
        IF kind = "Prometheus"
        THEN /\ tick > 0
             /\ result.cause # "NotFound"
             /\ (result = Nil <=> LastVerdict = "ready")
             /\ (result # Nil =>
                    /\ result.cause \in {"Timeout", "Transport"}
                    /\ result.wrap[1] = "waiting for Prometheus Pods to be gone failed")
        ELSE result = Nil /\ tick = 0

C7_Witness ==
    /\ fn = "Delete" /\ kind = "Prometheus" /\ pc = "done"
    /\ lastErr.cause = "NotFound" /\ store.phase = "absent" /\ pods > 0
    /\ result.cause = "Timeout"

\* C8: every Delete method issues its remote delete with foreground
\* propagation, so that the object it deleted is not gone from the store
\* while a child pod still exists.
C8_ForegroundDelete ==
    (fn = "Delete" /\ sent.verb = "delete" /\ lastErr = Nil) =>
        /\ sent.opts = "PropagationPolicy=Foreground"
        /\ (store.phase = "absent" => pods = 0)

\* C9: in every poll, the tick on which the condition reports ready is the
\* last one: no condition is evaluated after it, the remaining ticks of the
\* deadline are not waited out, and the method has returned success.
C9_ReadyEndsPoll ==
    \A i \in 1..Len(verdicts) :
        verdicts[i] = "ready" =>
            /\ i = Len(verdicts) /\ tick = i /\ i <= MaxTicks
            /\ pc = "done"
            /\ result = Nil

C9_Witness ==
    /\ fn = "WaitFor" /\ pc = "done"
    /\ verdicts = <<"pending", "ready">>
    /\ result = Nil

\* C10: every wait method, WaitForPrometheusOperatorCRDsReady included,
\* returns a time-out error, distinct from the other errors, when its
\* condition reported pending on every tick up to the deadline.
C10_TimeoutSurfaced ==
    (/\ fn \in {"WaitFor", "WaitForPrometheusOperatorCRDsReady"}
     /\ pc = "done"
     /\ Len(verdicts) = MaxTicks
     /\ \A i \in 1..Len(verdicts) : verdicts[i] = "pending") =>
        result = ErrWaitTimeout

\* whether the poll ended on a tick that fetched an object with field f
Fetched(f) == pc = "done" /\ f \in DOMAIN lastObs
HasCondition(conds, t, st) == \E i \in 1..Len(conds) : conds[i] = Condition(t, st)

\* C11: in every wait method an ordinary error on one tick (a failed
\* re-fetch, a failed status computation) is treated as pending and does not
\* end the poll before the deadline; only the naming-conflict error, which is
\* classified fatal, does.
C11_ErrorIsPending ==
    (fn = "WaitFor" /\ pc = "done" /\ LastVerdict = "error" /\ tick < MaxTicks) =>
        result.cause = "NamingConflict"

\* C12: for every condition list of the fetched CRD, in whatever order,
\* WaitForCRDReady ends on that tick with the naming-conflict error exactly
\* when the list holds NamesAccepted = False.
C12_NamingConflictIsFatal ==
    (fn = "WaitFor" /\ kind = "CustomResourceDefinition" /\ Fetched("conditions")) =>
        (HasCondition(lastObs.conditions, "NamesAccepted", "False")
            <=> (result = Error("NamingConflict") /\ LastVerdict = "error"))

\* C13 as stated: for every fetched CRD the predicate reports ready if and
\* only if its condition list holds Established = True.
C13_Original ==
    (fn = "WaitFor" /\ kind = "CustomResourceDefinition" /\ Fetched("conditions")) =>
        (LastVerdict = "ready" <=> HasCondition(lastObs.conditions, "Established", "True"))

\* C13 as amended: for every fetched CRD the predicate reports ready if and
\* only if its condition list holds an Established = True condition that no
\* NamesAccepted = False condition precedes in the list; the wait then
\* returns success.
C13_ReadyIffEstablishedFirst ==
    (fn = "WaitFor" /\ kind = "CustomResourceDefinition" /\ Fetched("conditions")) =>
        /\ LastVerdict = "ready" <=>
              \E i \in 1..Len(lastObs.conditions) :
                  /\ lastObs.conditions[i] = Condition("Established", "True")
                  /\ \A j \in 1..(i - 1) :
                        lastObs.conditions[j] # Condition("NamesAccepted", "False")
        /\ LastVerdict = "ready" <=> result = Nil

C13_Witness ==
    /\ fn = "WaitFor" /\ kind = "CustomResourceDefinition" /\ pc = "done"
    /\ verdicts = <<"pending", "ready">>
    /\ lastObs = [conditions |-> <<Condition("NamesAccepted", "True"),
                                   Condition("Established", "True")>>]
    /\ result = Nil

\* C14: for every fetched Deployment the rollout predicate reports ready if
\* and only if generation <= observedGeneration, updatedReplicas = replicas
\* (the replica count of the object's status) and unavailableReplicas = 0, and
\* pending otherwise; a fetch with the observed generation behind is pending,
\* a later one that has caught up with every replica updated is ready.
C14_DeploymentRollout ==
    (kind = "Deployment" /\ Fetched("unavailableReplicas")) =>
        LET rolledOut == /\ lastObs.generation <= lastObs.observedGeneration
                         /\ lastObs.updatedReplicas = lastObs.replicas
                         /\ lastObs.unavailableReplicas = 0
        IN  /\ rolledOut <=> LastVerdict = "ready"
            /\ ~rolledOut <=> LastVerdict = "pending"

C14_Witness ==
    /\ kind = "Deployment" /\ fn = "WaitFor" /\ pc = "done"
    /\ verdicts = <<"pending", "ready">>
    /\ lastObs = [generation |-> 2, observedGeneration |-> 2, updatedReplicas |-> 1,
                  replicas |-> 1, unavailableReplicas |-> 0]
    /\ result = Nil

\* C15: for every fetched DaemonSet the rollout predicate reports ready if
\* and only if generation <= observedGeneration, updatedNumberScheduled =
\* desiredNumberScheduled and numberUnavailable = 0, and pending otherwise.
C15_DaemonSetRollout ==
    (kind = "DaemonSet" /\ Fetched("numberUnavailable")) =>
        LET rolledOut == /\ lastObs.generation <= lastObs.observedGeneration
                         /\ lastObs.updatedNumberScheduled = lastObs.desiredNumberScheduled
                         /\ lastObs.numberUnavailable = 0
        IN  /\ rolledOut <=> LastVerdict = "ready"
            /\ ~rolledOut <=> LastVerdict = "pending"

C15_Witness ==
    /\ kind = "DaemonSet" /\ fn = "WaitFor" /\ pc = "done"
    /\ LastVerdict = "ready" /\ result = Nil
    /\ lastObs.generation < lastObs.observedGeneration
    /\ lastObs.desiredNumberScheduled = 1

\* C16: the route predicate is pending while the ingress list of the fetched
\* route's status is empty; once it is not empty the predicate is ready if and
\* only if the first ingress entry holds an Admitted condition with status
\* True; WaitForRouteReady then returns the spec host of that fetch, and on
\* every error return (deadline or failed fetch) it returns the empty string.
C16_RouteReady ==
    (kind = "Route" /\ fn = "WaitFor" /\ pc = "done") =>
        /\ result # Nil => host = ""
        /\ result = Nil => /\ Fetched("ingress")
                           /\ LastVerdict = "ready"
                           /\ host = lastObs.host
        /\ Fetched("ingress") =>
              /\ LastVerdict = "ready" <=>
                    /\ Len(lastObs.ingress) > 0
                    /\ HasCondition(lastObs.ingress[1].conditions, "Admitted", "True")
              /\ LastVerdict # "ready" => LastVerdict = "pending" /\ result = ErrWaitTimeout

C16_Witness ==
    /\ kind = "Route" /\ fn = "WaitFor" /\ pc = "done"
    /\ verdicts = <<"pending", "ready">>
    /\ Len(lastObs.ingress) = 1
    /\ Len(lastObs.ingress[1].conditions) = 2
    /\ lastObs.ingress[1].conditions[1] # Condition("Admitted", "True")
    /\ host = "example.test" /\ result = Nil

\* C17: for Prometheus and Alertmanager, on every tick whose re-fetch and
\* status computation succeed, the predicate is ready if and only if
\* updatedReplicas = desiredReplicas and availableReplicas >= desiredReplicas,
\* desiredReplicas being the replica count of the object fetched on that tick.
C17_MonitoringReady ==
    (kind \in {"Prometheus", "Alertmanager"} /\ fn = "WaitFor" /\ Fetched("statusErr")
            /\ ~lastObs.statusErr) =>
        LET available == /\ lastObs.updatedReplicas = lastObs.replicas
                         /\ lastObs.availableReplicas >= lastObs.replicas
        IN  /\ available <=> LastVerdict = "ready"
            /\ ~available <=> LastVerdict = "pending"

C17_Witness ==
    /\ kind = "Alertmanager" /\ fn = "WaitFor" /\ pc = "done"
    /\ LastVerdict = "ready" /\ result = Nil
    /\ ~lastObs.statusErr
    /\ lastObs.replicas = 0 /\ lastObs.updatedReplicas = 0 /\ lastObs.availableReplicas = 1

\* C18: DeletePrometheus returns success only after a pod listing, made after
\* the delete call, has returned the empty set; when the delete call fails
\* with an error other than not-found, that error is returned and no pod
\* listing is made.
C18_DeleteWaitsForPods ==
    (fn = "Delete" /\ kind = "Prometheus") =>
        /\ tick > 0 => /\ sent.verb = "delete"
                       /\ lastErr = Nil \/ IsNotFound(lastErr)
        /\ (pc = "done" /\ result = Nil) =>
              /\ tick > 0
              /\ LastVerdict = "ready"
              /\ Fetched("items") /\ lastObs.items = 0
        /\ (pc = "done" /\ lastErr # Nil /\ ~IsNotFound(lastErr)) =>
              /\ tick = 0 /\ verdicts = <<>>
              /\ result = Wrap(lastErr, "deleting object failed")

C18_Witness ==
    /\ fn = "Delete" /\ kind = "Prometheus" /\ pc = "done"
    /\ lastErr = Nil /\ result = Nil
    /\ verdicts = <<"pending", "ready">>
    /\ lastObs.items = 0 /\ pods = 0

\* C19: for every kind the error a CreateOrUpdate call returns is labelled
\* with the remote operation that failed: a failed Get with the retrieving
\* message, a failed Create with the creating message, a failed Update with
\* the updating message and never with the creating one; a call whose remote
\* operations all succeeded, and which waits for no rollout, returns nil.
C19_ErrorNamesOperation ==
    (fn = "CreateOrUpdate" /\ pc = "done") =>
        /\ got.res = "err" => result.wrap = <<"retrieving object failed">>
        /\ (via = "create" /\ lastErr # Nil) =>
              result = Wrap(lastErr, "creating object failed")
        /\ (via = "update" /\ lastErr # Nil) =>
              result = Wrap(lastErr, "updating object failed")
        /\ (got.res # "err" /\ lastErr = Nil /\ tick = 0) => result = Nil

\* C20: reconciliation is idempotent across the create and the update path:
\* when a CreateOrUpdate call has created the object and the caller, with no
\* other writer in between and no transport failure, reconciles the same
\* desired object again, the second call succeeds too (through Update, for the
\* kinds that update) and the store holds the one object with the desired
\* content.
C20_Idempotent ==
    (/\ fn = "CreateOrUpdate" /\ pc = "done" /\ nCreate = 0
     /\ prev.created
     /\ desired = (IF via = "update" THEN CarryOver(kind, prev.obj, got.obj)
                   ELSE prev.obj)
     /\ got.res # "err" /\ lastErr.cause # "Transport"
     /\ tick > 0 => LastVerdict = "ready") =>
        /\ result = Nil
        /\ Standard => via = "update"
        /\ store.phase = "present"
        /\ store.data = prev.obj.data

\* C21: every wait (the rollout waits, WaitForCRDReady, WaitForRouteReady,
\* WaitForPrometheus and WaitForAlertmanager, the pod wait of DeletePrometheus
\* and the nested WaitForPrometheusOperatorCRDsReady) eventually returns,
\* also when its condition never reports ready and whatever the store does;
\* the poll it returns from ended in exactly one of ready, error, or deadline.
C21_WaitReturns ==
    /\ (pc \in {"poll", "list"}) ~> (pc = "done")
    /\ [](pc = "poll" => tick < MaxTicks)
    /\ []((pc = "done" /\ tick > 0) =>
            \/ LastVerdict = "ready"
            \/ LastVerdict = "error"
            \/ LastVerdict = "pending" /\ tick = MaxTicks)

C21_Witness ==
    /\ fn = "WaitForPrometheusOperatorCRDsReady" /\ pc = "done"
    /\ stage = 2 /\ tick = MaxTicks
    /\ \A i \in 1..Len(verdicts) : verdicts[i] = "pending"

\* C22: for every kind with the standard policy, when another writer has
\* changed the stored object between the call's Get and its Update, the
\* Update (unless the transport fails) is rejected as a conflict, the store
\* keeps the other writer's change, and the call returns the conflict error
\* wrapped.
C22_NoLostUpdate ==
    [][(/\ Standard /\ pc = "update" /\ nUpdate' = nUpdate + 1
        /\ store.phase = "present" /\ store.rv > got.obj.rv
        /\ lastErr'.cause # "Transport") =>
            /\ lastErr' = Error("Conflict")
            /\ store' = store
            /\ pc' = "done"
            /\ result'.cause = "Conflict" /\ result'.wrap # <<>>]_vars

\* whether the call c of a calling context has ended its remote writes
Settled(c) == c.pc \in {"done", "poll"}
CreateSucceeded(c) == c.via = "create" /\ c.nCreate = 1 /\ c.lastErr = Nil
CreateRejected(c) == c.via = "create" /\ c.lastErr = Error("AlreadyExists")

\* C23: when two CreateOrUpdate calls for the same identity run concurrently
\* from an absent object, in every interleaving at most one Create succeeds,
\* a call whose Create is rejected because the object already exists returns
\* that error wrapped as creating-failed and issues no Update, and once both
\* calls have made their remote calls without a transport failure the store
\* holds the one object of that identity.
C23_ConcurrentCreate ==
    /\ ~(CreateSucceeded(Running) /\ CreateSucceeded(parked))
    /\ \A c \in {Running, parked} :
          CreateRejected(c) =>
              /\ c.pc = "done"
              /\ c.nUpdate = 0
              /\ c.result = Wrap(Error("AlreadyExists"), "creating object failed")
    /\ (/\ Settled(Running) /\ Settled(parked)
        /\ \A c \in {Running, parked} :
              c.got.res # "err" /\ c.lastErr.cause # "Transport") =>
            /\ store.phase = "present"
            /\ CreateSucceeded(Running) \/ CreateSucceeded(parked)

C23_Witness ==
    /\ CreateRejected(Running) /\ pc = "done" /\ got.res = "notfound"
    /\ CreateSucceeded(parked) /\ parked.pc = "done" /\ parked.got.res = "notfound"
    /\ store.phase = "present" /\ store.data = parked.desired.data
    /\ desired.data # parked.desired.data

\* the rollout predicate of kind k on the fetched object o
RolledOut(k, o) ==
    IF k = "Deployment"
    THEN /\ o.generation <= o.observedGeneration
         /\ o.updatedReplicas = o.replicas
         /\ o.unavailableReplicas = 0
    ELSE /\ o.generation <= o.observedGeneration
         /\ o.updatedNumberScheduled = o.desiredNumberScheduled
         /\ o.numberUnavailable = 0

\* C24: CreateOrUpdateDeployment and CreateOrUpdateDaemonSet return success
\* only if their own Create or Update succeeded and a later Get of the
\* identity satisfied the kind's rollout predicate; when the Create or the
\* Update fails, no rollout wait is started.
C24_RolloutAfterWrite ==
    (fn = "CreateOrUpdate" /\ kind \in {"Deployment", "DaemonSet"}) =>
        /\ (pc = "done" /\ result = Nil) =>
              /\ via \in {"create", "update"} /\ sent.verb = via
              /\ lastErr = Nil
              /\ nGet >= 2 /\ tick >= 1
              /\ LastVerdict = "ready"
              /\ Fetched("generation") /\ RolledOut(kind, lastObs)
        /\ (pc = "poll" \/ tick > 0) => (via \in {"create", "update"} /\ lastErr = Nil)
        /\ lastErr # Nil => (pc = "done" /\ tick = 0 /\ result # Nil)

C24_Witness ==
    /\ fn = "CreateOrUpdate" /\ kind = "DaemonSet" /\ pc = "done"
    /\ via = "update" /\ result = Nil
    /\ verdicts = <<"pending", "ready">>
    /\ nGet = 3

\* C25: CreateIfNotExistSecret, CreateIfNotExistConfigMap and
\* CreateRouteIfNotExists never issue an Update; when the Get finds the
\* object they return success without any write, whatever the difference
\* between the caller's object and the stored one; when the Get reports it
\* not found they issue exactly one Create, of the caller's object.
C25_IfNotExistsNeverUpdates ==
    fn = "CreateIfNotExists" =>
        /\ nUpdate = 0 /\ sent.verb # "update" /\ pc # "update"
        /\ nGet <= 1 /\ nCreate <= 1
        /\ (pc = "done" /\ got.res = "found") =>
              result = Nil /\ nCreate = 0 /\ sent = NoSent
        /\ (pc = "done" /\ got.res = "notfound") =>
              nCreate = 1 /\ sent = [verb |-> "create", obj |-> desired, opts |-> ""]

C25_Witness ==
    /\ fn = "CreateIfNotExists" /\ kind = "ConfigMap" /\ pc = "done"
    /\ got.res = "found" /\ result = Nil
    /\ store.phase = "present" /\ StoredObj(store) = got.obj
    /\ store.data # desired.data

====
